---------------------------- MODULE Spec2Model ----------------------------
(***************************************************************************)
(* Codebase Guide (src/src/extension.ts): the session state of the guide   *)
(* panel and the pure functions of the guide engine.                       *)
(*                                                                         *)
(* Strings are TLA+ strings (Len, SubSeq and \o apply to them); a Uri is    *)
(* its fsPath, a string such as "/ws/src/f1.ts".                           *)
(***************************************************************************)
EXTENDS Naturals, Sequences, FiniteSets, TLC

VARIABLES
    learnedFiles,       \* extension.ts:40  the set of learned fsPaths
    currentLearnedUri,  \* extension.ts:39
    currentSummary,     \* extension.ts:37
    nextResponse,       \* extension.ts:38
    currentPanel,       \* extension.ts:35  TRUE when a panel is open, FALSE when undefined
    panelHtml,          \* panel.webview.html: the summary and response it was rendered from
    questionInput,      \* the value of the #nextQuestion input of the webview
    editor,             \* the document and line the text editor shows
    tasks,              \* the handler invocations that are at an await
    call,               \* the arguments of a pure function under check
    ret                 \* its result, NotRun before the call

vars ==
    <<learnedFiles, currentLearnedUri, currentSummary, nextResponse, currentPanel, panelHtml,
      questionInput, editor, tasks, call, ret>>

\* undefined, for a record-valued variable and for a Uri
Undefined == [undefined |-> TRUE]
UndefinedUri == ""
NotRun == [done |-> FALSE]
Returned(v) == [done |-> TRUE, value |-> v]
NoCall == [fn |-> "none"]
NoPanel == "none"        \* the panel a task holds: none, the open one, or a disposed one
NoHtml == [rendered |-> FALSE]
NoEditor == [path |-> "", line |-> 0]

(***************************************************************************)
(* Bounds of the model.                                                    *)
(***************************************************************************)
NumFiles == 3       \* files of a small workspace
MaxSize == 3        \* imports + suggestions + steps of a small workspace
MaxImports == 6     \* import statements of an import-heavy file

Min(a, b) == IF a < b THEN a ELSE b
Range(s) == {s[i] : i \in 1..Len(s)}
IsInjective(s) == \A i, j \in 1..Len(s) : s[i] = s[j] => i = j

(***************************************************************************)
(* String.prototype methods.                                               *)
(***************************************************************************)
CharAt(s, i) == SubSeq(s, i, i)
Drop(s, n) == SubSeq(s, n + 1, Len(s))
StartsWith(s, p) == Len(p) <= Len(s) /\ SubSeq(s, 1, Len(p)) = p
EndsWith(s, p) == Len(p) <= Len(s) /\ SubSeq(s, Len(s) - Len(p) + 1, Len(s)) = p
Includes(s, t) ==
    Len(t) <= Len(s) /\ \E i \in 1..(Len(s) - Len(t) + 1) : SubSeq(s, i, i + Len(t) - 1) = t

Alphabet == "abcdefghijklmnopqrstuvwxyz"
Capitals == "ABCDEFGHIJKLMNOPQRSTUVWXYZ"
Digits == "0123456789"
CharsOf(s) == {CharAt(s, i) : i \in 1..Len(s)}
CapitalChars == CharsOf(Capitals)
Letters == CharsOf(Alphabet) \cup CapitalChars
WordChars == Letters \cup CharsOf(Digits) \cup {"_"}     \* \w, [A-Za-z0-9_]
Whitespace == {" ", "\t"}                                \* \s

LowerChar(c) ==
    IF c \in CapitalChars
    THEN CharAt(Alphabet, CHOOSE i \in 1..Len(Capitals) : CharAt(Capitals, i) = c)
    ELSE c

RECURSIVE ToLowerCase(_)
ToLowerCase(s) ==
    IF Len(s) = 0 THEN "" ELSE LowerChar(CharAt(s, 1)) \o ToLowerCase(Drop(s, 1))

RECURSIVE TrimStart(_)
TrimStart(s) ==
    IF Len(s) > 0 /\ CharAt(s, 1) \in Whitespace THEN TrimStart(Drop(s, 1)) ELSE s

RECURSIVE TrimEnd(_)
TrimEnd(s) ==
    IF Len(s) > 0 /\ CharAt(s, Len(s)) \in Whitespace
    THEN TrimEnd(SubSeq(s, 1, Len(s) - 1)) ELSE s

Trim(s) == TrimEnd(TrimStart(s))

\* the index after the longest run of characters of set that starts at i
RECURSIVE SkipRun(_, _, _)
SkipRun(s, i, set) ==
    IF i <= Len(s) /\ CharAt(s, i) \in set THEN SkipRun(s, i + 1, set) ELSE i

\* s has t at index i
HasAt(s, i, t) == i + Len(t) - 1 <= Len(s) /\ SubSeq(s, i, i + Len(t) - 1) = t

\* s.split(/\W+/): the runs of word characters, with an empty string where
\* the text starts or ends with a separator
RECURSIVE SplitLoop(_, _, _, _, _)
SplitLoop(s, i, tokens, current, afterSeparator) ==
    IF i > Len(s) THEN Append(tokens, current)
    ELSE IF CharAt(s, i) \in WordChars
         THEN SplitLoop(s, i + 1, tokens, current \o CharAt(s, i), FALSE)
    ELSE IF afterSeparator THEN SplitLoop(s, i + 1, tokens, current, TRUE)
    ELSE SplitLoop(s, i + 1, Append(tokens, current), "", TRUE)

SplitNonWord(s) == SplitLoop(s, 1, <<>>, "", FALSE)

\* vscode.workspace.asRelativePath: the path below the workspace folder
WorkspaceRoot == "/ws"
asRelativePath(fsPath) ==
    IF StartsWith(fsPath, WorkspaceRoot \o "/") THEN Drop(fsPath, Len(WorkspaceRoot) + 1)
    ELSE fsPath

(***************************************************************************)
(* buildNextSuggestions, extension.ts:177-258.                             *)
(***************************************************************************)
MaxNext == 6
\* the extensions with the JavaScript ones tried first
ExtensionsJsFirst ==
    <<"", ".js", ".jsx", ".ts", ".tsx", "/index.js", "/index.jsx", "/index.ts", "/index.tsx">>

Extensions ==
    <<"", ".ts", ".tsx", ".js", ".jsx", "/index.ts", "/index.tsx", "/index.js", "/index.jsx">>

NoPath == ""

\* the path without its last segment: vscode.Uri.joinPath(currentUri, '..')
RECURSIVE Dirname(_)
Dirname(path) ==
    IF Len(path) = 0 THEN ""
    ELSE IF CharAt(path, Len(path)) = "/" THEN SubSeq(path, 1, Len(path) - 1)
    ELSE Dirname(SubSeq(path, 1, Len(path) - 1))

\* vscode.Uri.joinPath(dir, rel), which normalises leading "./" and "../"
RECURSIVE JoinPath(_, _)
JoinPath(dir, rel) ==
    IF StartsWith(rel, "./") THEN JoinPath(dir, Drop(rel, 2))
    ELSE IF StartsWith(rel, "../") THEN JoinPath(Dirname(dir), Drop(rel, 3))
    ELSE dir \o "/" \o rel

\* the loop over extensions: the first candidate whose stat succeeds, from k on
RECURSIVE FirstExisting(_, _, _, _)
FirstExisting(currentDir, specifier, exists, k) ==
    IF k > Len(Extensions) THEN NoPath
    ELSE LET candidate == JoinPath(currentDir, specifier \o Extensions[k])
         IN  IF candidate \in exists THEN candidate
             ELSE FirstExisting(currentDir, specifier, exists, k + 1)

ImportReason(learned) ==
    IF learned THEN "Imported by current file (already explored)"
    ELSE "Imported by current file"

\* ImportStep without the seen.has(candidate.fsPath) test
ImportStepUnseen(acc, currentUri, specifier, exists, learned) ==
    IF ~StartsWith(specifier, ".") THEN acc
    ELSE LET candidate == FirstExisting(Dirname(currentUri), specifier, exists, 1)
         IN  IF candidate = NoPath THEN acc
             ELSE [seen |-> acc.seen \cup {candidate},
                   result |-> Append(acc.result,
                                     [label |-> asRelativePath(candidate),
                                      reason |-> ImportReason(candidate \in learned),
                                      fsPath |-> candidate])]

\* one match of importPattern: the body of the while loop
ImportStep(acc, currentUri, specifier, exists, learned) ==
    IF ~StartsWith(specifier, ".") THEN acc
    ELSE LET candidate == FirstExisting(Dirname(currentUri), specifier, exists, 1)
         IN  IF candidate = NoPath \/ candidate \in acc.seen THEN acc
             ELSE [seen |-> acc.seen \cup {candidate},
                   result |-> Append(acc.result,
                                     [label |-> asRelativePath(candidate),
                                      reason |-> ImportReason(candidate \in learned),
                                      fsPath |-> candidate])]

RECURSIVE ImportLoop(_, _, _, _, _, _)
ImportLoop(acc, currentUri, imports, k, exists, learned) ==
    IF k > Len(imports) THEN acc
    ELSE ImportLoop(ImportStep(acc, currentUri, imports[k], exists, learned),
                    currentUri, imports, k + 1, exists, learned)

\* tier 1: doc is unreadable when openTextDocument throws (the outer catch);
\* doc.imports are the specifiers importPattern matches, in text order
Tier1(acc, currentUri, doc, exists, learned) ==
    IF ~doc.readable THEN acc
    ELSE ImportLoop(acc, currentUri, doc.imports, 1, exists, learned)

\* walkthroughSteps.findIndex(s => s.target?.fsPath === currentFsPath), 0 for -1
StepIndex(steps, currentUri) ==
    LET hits == {i \in 1..Len(steps) : steps[i].target = currentUri}
    IN  IF hits = {} THEN 0 ELSE CHOOSE i \in hits : \A j \in hits : i <= j

\* tier 2 without the step index: every step counts as a later step
Tier2FromStart(acc, steps, currentUri) ==
    LET later == {i \in 1..Len(steps) :
                     steps[i].target # UndefinedUri /\ steps[i].target \notin acc.seen}
    IN  IF later = {} THEN acc
        ELSE LET i == CHOOSE i \in later : \A j \in later : i <= j
             IN  [seen |-> acc.seen \cup {steps[i].target},
                  result |-> Append(acc.result,
                                    [label |-> asRelativePath(steps[i].target),
                                     reason |-> "Next walkthrough step: " \o steps[i].title,
                                     fsPath |-> steps[i].target])]

\* tier 2: the first later step whose target is set and not yet seen
Tier2(acc, steps, currentUri) ==
    LET stepIndex == StepIndex(steps, currentUri)
        later == {i \in (stepIndex + 1)..Len(steps) :
                     steps[i].target # UndefinedUri /\ steps[i].target \notin acc.seen}
    IN  IF stepIndex = 0 \/ later = {} THEN acc
        ELSE LET i == CHOOSE i \in later : \A j \in later : i <= j
             IN  [seen |-> acc.seen \cup {steps[i].target},
                  result |-> Append(acc.result,
                                    [label |-> asRelativePath(steps[i].target),
                                     reason |-> "Next walkthrough step: " \o steps[i].title,
                                     fsPath |-> steps[i].target])]

\* tier 3 without the test on the learned files
RECURSIVE Tier3KeepLearned(_, _, _, _)
Tier3KeepLearned(acc, suggestions, k, learned) ==
    IF k > Len(suggestions) THEN acc
    ELSE LET s == suggestions[k]
             pushed == IF s.uri \notin acc.seen
                       THEN [seen |-> acc.seen \cup {s.uri},
                             result |-> Append(acc.result,
                                               [label |-> s.label, reason |-> s.reason,
                                                fsPath |-> s.uri])]
                       ELSE acc
         IN  IF Len(pushed.result) >= MaxNext THEN pushed
             ELSE Tier3KeepLearned(pushed, suggestions, k + 1, learned)

\* tier 3: the loop over suggestions; the length test follows the push
RECURSIVE Tier3(_, _, _, _)
Tier3(acc, suggestions, k, learned) ==
    IF k > Len(suggestions) THEN acc
    ELSE LET s == suggestions[k]
             pushed == IF s.uri \notin acc.seen /\ s.uri \notin learned
                       THEN [seen |-> acc.seen \cup {s.uri},
                             result |-> Append(acc.result,
                                               [label |-> s.label, reason |-> s.reason,
                                                fsPath |-> s.uri])]
                       ELSE acc
         IN  IF Len(pushed.result) >= MaxNext THEN pushed
             ELSE Tier3(pushed, suggestions, k + 1, learned)

buildNextSuggestions(currentUri, doc, exists, suggestions, steps, learned) ==
    LET start == [seen |-> {currentUri}, result |-> <<>>]
        t1 == Tier1(start, currentUri, doc, exists, learned)
        t2 == Tier2(t1, steps, currentUri)
    IN  Tier3(t2, suggestions, 1, learned).result


(***************************************************************************)
(* The workspaces buildNextSuggestions is checked on.  A small workspace   *)
(* has NumFiles files /ws/src/f<i>.ts; the current file imports them as    *)
(* "./f<i>" (f0 does not exist) or imports the package "react".  An        *)
(* import-heavy file imports n different modules in a row.                 *)
(***************************************************************************)
File(i) == "/ws/src/f" \o ToString(i) \o ".ts"
Readable(imports) == [readable |-> TRUE, imports |-> imports]
Unreadable == [readable |-> FALSE, imports |-> <<>>]
SmallFiles == {File(i) : i \in 1..NumFiles}
RelativeImport(i) == "./f" \o ToString(i)
BareImport == "react"
Specifiers == {RelativeImport(i) : i \in 0..NumFiles} \cup {BareImport}

StepTitles ==
    <<"Read the README", "Check package or build config", "Find the app entry point",
      "Trace routes or pages", "Inspect controllers or handlers", "Follow data and services">>
TitleOf(k) == StepTitles[((k - 1) % Len(StepTitles)) + 1]
EntryReason == "Likely application entry point."

AsSuggestions(uris) ==
    [k \in 1..Len(uris) |->
        [label |-> asRelativePath(uris[k]), reason |-> EntryReason, uri |-> uris[k]]]
AsSteps(targets) == [k \in 1..Len(targets) |-> [title |-> TitleOf(k), target |-> targets[k]]]

Sizes == {t \in (0..MaxSize) \X (0..MaxSize) \X (0..MaxSize) : t[1] + t[2] + t[3] <= MaxSize}

Workspace(cur, doc, exists, uris, targets, learned) ==
    [fn |-> "buildNextSuggestions", currentUri |-> cur, doc |-> doc, exists |-> exists,
     suggestions |-> AsSuggestions(uris), steps |-> AsSteps(targets),
     learned |-> learned \cup {cur}]

SmallWorkspace(w) ==
    \E t \in Sizes, cur \in SmallFiles, l \in SUBSET SmallFiles :
        \E im \in [1..t[1] -> Specifiers],
           sg \in {q \in [1..t[2] -> SmallFiles] : IsInjective(q)},
           st \in [1..t[3] -> SmallFiles \cup {UndefinedUri}] :
            \/ w = Workspace(cur, Readable(im), SmallFiles, sg, st, l)
            \/ /\ t[1] = 0
               /\ w = Workspace(cur, Unreadable, SmallFiles, sg, st, l)

ImportHeavyWorkspace(w) ==
    \E n \in 0..MaxImports :
        \E sg \in {<<>>, <<File(n + 2)>>, <<File(1), File(n + 2)>>,
                    <<File(n + 2), File(n + 3)>>, <<File(n + 3), File(n + 1), File(n + 2)>>},
           st \in {<<>>, <<File(n + 1), File(n + 2)>>},
           l \in {{}, {File(1)}} :
            w = Workspace(File(n + 1), Readable([i \in 1..n |-> RelativeImport(i)]),
                          {File(i) : i \in 1..(n + 3)}, sg, st, l)

\* workspaces for the resolution of a specifier: a file that imports at most
\* MaxSpecifiers specifiers, of whose candidates at most MaxExisting exist
MaxSpecifiers == 2
MaxExisting == 2
MainFile == "/ws/src/main.ts"
ImportSpecifiers == {"./utils", "./api", "../lib/db", BareImport}
CandidateFiles ==
    {"/ws/src/utils", "/ws/src/utils.ts", "/ws/src/utils.js", "/ws/src/utils/index.ts",
     "/ws/src/utils/index.jsx", "/ws/src/api.tsx", "/ws/src/api/index.js", "/ws/lib/db.js"}
ExistingSets == {files \in SUBSET CandidateFiles : Cardinality(files) <= MaxExisting}

ResolutionWorkspace(w) ==
    \E n \in 0..MaxSpecifiers, files \in ExistingSets, l \in {{}, {"/ws/src/utils.ts"}} :
        \E im \in [1..n -> ImportSpecifiers] :
            w = Workspace(MainFile, Readable(im), files \cup {MainFile}, <<>>, <<>>, l)

SessionIdle ==
    /\ learnedFiles = {}
    /\ currentLearnedUri = UndefinedUri
    /\ currentSummary = Undefined
    /\ nextResponse = Undefined
    /\ currentPanel = FALSE
    /\ panelHtml = NoHtml
    /\ questionInput = ""
    /\ editor = NoEditor
    /\ tasks = {}

activeContext == <<currentLearnedUri, currentSummary, nextResponse>>
sessionVars ==
    <<learnedFiles, currentLearnedUri, currentSummary, nextResponse, currentPanel, panelHtml,
      questionInput, editor, tasks>>

InitResolver ==
    /\ SessionIdle
    /\ SmallWorkspace(call) \/ ImportHeavyWorkspace(call) \/ ResolutionWorkspace(call)
    /\ ret = NotRun

CallBuildNextSuggestions ==
    /\ call.fn = "buildNextSuggestions"
    /\ ret = NotRun
    /\ ret' = Returned(buildNextSuggestions(call.currentUri, call.doc, call.exists,
                                            call.suggestions, call.steps, call.learned))
    /\ UNCHANGED <<call, sessionVars>>

SpecResolver == InitResolver /\ [][CallBuildNextSuggestions]_vars

ResolverDone == call.fn = "buildNextSuggestions" /\ ret.done
Paths(result) == {result[i].fsPath : i \in 1..Len(result)}
\* the k-th import statement of workspace w names the file path (less its .ts)
Imports(w, k, path) ==
    /\ StartsWith(w.doc.imports[k], ".")
    /\ JoinPath(Dirname(w.currentUri), w.doc.imports[k] \o ".ts") = path

\* C1: the list returned by buildNextSuggestions has at most 6 entries
\* combined across the three tiers.
NextAtMostSix == ResolverDone => Len(ret.value) <= MaxNext

\* C2: in the list returned by buildNextSuggestions the paths are pairwise
\* distinct and none is the current file's own path.
NextDistinctNotCurrent ==
    ResolverDone =>
        /\ \A i, j \in 1..Len(ret.value) : ret.value[i].fsPath = ret.value[j].fsPath => i = j
        /\ call.currentUri \notin Paths(ret.value)

\* C2's case: the current file imports itself, and a returned file is both
\* imported and ranked.
NextDistinctWitness ==
    /\ ResolverDone
    /\ call.doc.readable
    /\ \E k \in 1..Len(call.doc.imports) : Imports(call, k, call.currentUri)
    /\ \E i \in 1..Len(ret.value) :
          /\ \E k \in 1..Len(call.doc.imports) : Imports(call, k, ret.value[i].fsPath)
          /\ \E k \in 1..Len(call.suggestions) :
                call.suggestions[k].uri = ret.value[i].fsPath


(***************************************************************************)
(* buildGuideSuggestions, extension.ts:141-175.                            *)
(***************************************************************************)
Patterns ==
    <<[glob |-> "**/README.md", reason |-> "Project overview and setup notes."],
      [glob |-> "**/package.json", reason |-> "Scripts, dependencies, and entry points."],
      [glob |-> "**/src/index.*", reason |-> "Likely application entry point."],
      [glob |-> "**/src/main.*", reason |-> "Likely application entry point."],
      [glob |-> "**/src/app.*", reason |-> "Core app wiring and middleware."],
      [glob |-> "**/src/server.*", reason |-> "HTTP server or runtime bootstrap."],
      [glob |-> "**/src/routes/**", reason |-> "Route definitions and endpoints."],
      [glob |-> "**/src/controllers/**", reason |-> "Endpoint handlers and business logic."],
      [glob |-> "**/src/pages/**", reason |-> "UI routes or page-level components."]>>

MaxResults == 20

\* vscode.workspace.findFiles(glob, exclude, 20) on the matches of one glob:
\* at most 20 of them, in the collaborator's order
FindFiles(matches) == SubSeq(matches, 1, Min(Len(matches), MaxResults))

\* the inner loop with every uri pushed, seen or not
RECURSIVE PushAll(_, _, _, _)
PushAll(acc, uris, k, reason) ==
    IF k > Len(uris) THEN acc
    ELSE PushAll([acc EXCEPT !.seen = @ \cup {uris[k]},
                             !.suggestions = Append(@, [label |-> asRelativePath(uris[k]),
                                                        reason |-> reason,
                                                        uri |-> uris[k]])],
                 uris, k + 1, reason)

\* the inner loop: for (const uri of uris), from the k-th uri on
RECURSIVE PushUnseen(_, _, _, _)
PushUnseen(acc, uris, k, reason) ==
    IF k > Len(uris) THEN acc
    ELSE IF uris[k] \in acc.seen THEN PushUnseen(acc, uris, k + 1, reason)
    ELSE PushUnseen([acc EXCEPT !.seen = @ \cup {uris[k]},
                                !.suggestions = Append(@, [label |-> asRelativePath(uris[k]),
                                                           reason |-> reason,
                                                           uri |-> uris[k]])],
                    uris, k + 1, reason)

\* the outer loop: for (const pattern of patterns), from the k-th pattern on.
\* search[k] is what findFiles answers for pattern k; a rejected findFiles
\* is not caught, so the function rejects
RECURSIVE PatternLoop(_, _, _)
PatternLoop(acc, search, k) ==
    IF k > Len(Patterns) THEN acc
    ELSE IF ~search[k].ok THEN [acc EXCEPT !.threw = TRUE, !.suggestions = <<>>]
    ELSE PatternLoop(PushUnseen(acc, FindFiles(search[k].uris), 1, Patterns[k].reason),
                     search, k + 1)

buildGuideSuggestions(search) ==
    LET end == PatternLoop([threw |-> FALSE, seen |-> {}, suggestions |-> <<>>], search, 1)
    IN  [threw |-> end.threw, suggestions |-> end.suggestions]

(***************************************************************************)
(* The file searches buildGuideSuggestions is checked on: at most          *)
(* MaxMatchedRules of the nine globs match anything or fail, each with one *)
(* or two of three files.                                                  *)
(***************************************************************************)
MaxMatchedRules == 2
GuideFiles == {"/ws/README.md", "/ws/src/index.ts", "/ws/src/routes/index.ts"}
Found(uris) == [ok |-> TRUE, uris |-> uris]
SearchFailed == [ok |-> FALSE, uris |-> <<>>]
SearchAnswers ==
    {SearchFailed} \cup {Found(<<a>>) : a \in GuideFiles}
                   \cup {Found(<<p[1], p[2]>>) : p \in {q \in GuideFiles \X GuideFiles : q[1] # q[2]}}

FileSearch(w) ==
    \E R \in {Q \in SUBSET (1..Len(Patterns)) : Cardinality(Q) <= MaxMatchedRules} :
        \E f \in [R -> SearchAnswers] :
            w = [fn |-> "buildGuideSuggestions",
                 search |-> [k \in 1..Len(Patterns) |-> IF k \in R THEN f[k] ELSE Found(<<>>)]]

InitRanker ==
    /\ SessionIdle
    /\ FileSearch(call)
    /\ ret = NotRun

CallBuildGuideSuggestions ==
    /\ call.fn = "buildGuideSuggestions"
    /\ ret = NotRun
    /\ ret' = Returned(buildGuideSuggestions(call.search))
    /\ UNCHANGED <<call, sessionVars>>

SpecRanker == InitRanker /\ [][CallBuildGuideSuggestions]_vars

RankerDone == call.fn = "buildGuideSuggestions" /\ ret.done
Matched(search, k) == IF search[k].ok THEN Range(search[k].uris) ELSE {}
\* the first rule whose search found uri, and uri's place in that answer
FirstRule(search, uri) ==
    CHOOSE k \in 1..Len(Patterns) :
        /\ uri \in Matched(search, k)
        /\ \A j \in 1..(k - 1) : uri \notin Matched(search, j)
PlaceIn(uris, uri) == CHOOSE i \in 1..Len(uris) : uris[i] = uri
Uris(suggestions) == {suggestions[i].uri : i \in 1..Len(suggestions)}

\* C3: buildGuideSuggestions lists each path once, with the reason of the
\* first rule that matched it, in rule order and then in search order.
RankerFirstMatchWins ==
    RankerDone /\ ~ret.value.threw =>
        LET out == ret.value.suggestions
            rule(i) == FirstRule(call.search, out[i].uri)
        IN  /\ Uris(out) = UNION {Matched(call.search, k) : k \in 1..Len(Patterns)}
            /\ \A i \in 1..Len(out) : out[i].reason = Patterns[rule(i)].reason
            /\ \A i, j \in 1..Len(out) :
                  i < j =>
                      /\ out[i].uri # out[j].uri
                      /\ rule(i) <= rule(j)
                      /\ rule(i) = rule(j) =>
                            PlaceIn(call.search[rule(i)].uris, out[i].uri)
                                < PlaceIn(call.search[rule(i)].uris, out[j].uri)

\* C3's case: a path matched by two rules with different reasons is listed.
RankerOverlapWitness ==
    /\ RankerDone
    /\ ~ret.value.threw
    /\ \E i, j \in 1..Len(Patterns) :
          /\ i < j
          /\ Patterns[i].reason # Patterns[j].reason
          /\ Matched(call.search, i) \cap Matched(call.search, j) # {}
          /\ Cardinality(Matched(call.search, i) \cup Matched(call.search, j)) > 1
    /\ Len(ret.value.suggestions) > 1

\* C6: when the file search fails for one rule and other rules match files,
\* buildGuideSuggestions does not fail and still returns the candidates
\* matched by the other rules.
RankerSkipsFailedRule ==
    /\ RankerDone
    /\ \E k \in 1..Len(Patterns) : ~call.search[k].ok
    /\ \E k \in 1..Len(Patterns) : Matched(call.search, k) # {}
    =>
        /\ ~ret.value.threw
        /\ Uris(ret.value.suggestions)
              = UNION {Matched(call.search, k) : k \in 1..Len(Patterns)}


(***************************************************************************)
(* analyzeDocument, extension.ts:678-730.  Each regular expression is      *)
(* matched as the engine matches it: optional groups are tried first and   *)
(* given up when the rest of the pattern fails.                            *)
(***************************************************************************)
MaxHeadings == 5
MaxExports == 8
MaxIndent == 2
MaxHashes == 3
ExportKinds == <<"class", "function", "const", "let", "var", "interface", "type", "enum">>

\* the index after word and the whitespace (\s+) behind it, 0 when the line
\* does not have them at p
AfterWord(line, p, word) ==
    LET q == p + Len(word)
        r == SkipRun(line, q, Whitespace)
    IN  IF HasAt(line, p, word) /\ r > q THEN r ELSE 0

\* (?:word\s+)? at p
AfterOptional(line, p, word) == IF AfterWord(line, p, word) # 0 THEN AfterWord(line, p, word) ELSE p

\* ([A-Za-z0-9_]+) at p, "" when there is none
NameAt(line, p) == SubSeq(line, p, SkipRun(line, p, WordChars) - 1)

\* ^\s{0,2}: the index after the indentation, 0 when it is deeper
AfterIndent(line) ==
    LET p == SkipRun(line, 1, Whitespace) IN IF p - 1 <= MaxIndent THEN p ELSE 0

\* /^#{1,3}\s+(.*)$/, trimmed; "no heading" otherwise
NoHeading == "\tno heading"
HeadingMatch(line) ==
    LET h == SkipRun(line, 1, {"#"})
        t == SkipRun(line, h, Whitespace)
    IN  IF h - 1 >= 1 /\ h - 1 <= MaxHashes /\ t > h THEN Trim(Drop(line, t - 1)) ELSE NoHeading

\* \s*([A-Za-z0-9_]+) at p
ExportNameAt(line, p) == IF p = 0 THEN "" ELSE NameAt(line, SkipRun(line, p, Whitespace))

\* (?:class|function|...)?\s*([A-Za-z0-9_]+) at p: the first kind, from the
\* k-th on, after which a name follows, else the name at p itself
RECURSIVE ExportAfterKind(_, _, _)
ExportAfterKind(line, p, k) ==
    IF k > Len(ExportKinds) THEN ExportNameAt(line, p)
    ELSE IF HasAt(line, p, ExportKinds[k])
            /\ ExportNameAt(line, p + Len(ExportKinds[k])) # ""
         THEN ExportNameAt(line, p + Len(ExportKinds[k]))
    ELSE ExportAfterKind(line, p, k + 1)

\* /^\s*export\s+(?:default\s+)?(?:class|...|enum)?\s*([A-Za-z0-9_]+)/
ExportMatch(line) ==
    LET p == AfterWord(line, SkipRun(line, 1, Whitespace), "export")
        d == IF p = 0 THEN 0 ELSE AfterWord(line, p, "default")
    IN  IF p = 0 THEN ""
        ELSE IF d # 0 /\ ExportAfterKind(line, d, 1) # "" THEN ExportAfterKind(line, d, 1)
        ELSE ExportAfterKind(line, p, 1)

\* /^\s{0,2}(?:export\s+)?(?:async\s+)?function\s+([A-Za-z0-9_]+)/
FunctionMatch(line) ==
    LET p == AfterIndent(line)
        q == IF p = 0 THEN 0
             ELSE AfterWord(line, AfterOptional(line, AfterOptional(line, p, "export"), "async"),
                            "function")
    IN  IF q = 0 THEN "" ELSE NameAt(line, q)

\* /^\s{0,2}(?:export\s+)?class\s+([A-Za-z0-9_]+)/
ClassMatch(line) ==
    LET p == AfterIndent(line)
        q == IF p = 0 THEN 0 ELSE AfterWord(line, AfterOptional(line, p, "export"), "class")
    IN  IF q = 0 THEN "" ELSE NameAt(line, q)

\* /^\s{0,2}(?:export\s+)?const\s+([A-Za-z0-9_]+)\s*=\s*(?:async\s*)?\([^)]*\)\s*=>/
ArrowMatch(line) ==
    LET p == AfterIndent(line)
        q == IF p = 0 THEN 0 ELSE AfterWord(line, AfterOptional(line, p, "export"), "const")
        name == IF q = 0 THEN "" ELSE NameAt(line, q)
        eq == SkipRun(line, q + Len(name), Whitespace)
        a == SkipRun(line, eq + 1, Whitespace)
        open == IF HasAt(line, a, "async") THEN SkipRun(line, a + 5, Whitespace) ELSE a
        close == SkipRun(line, open + 1, CharsOf(line) \ {")"})
        arrow == SkipRun(line, close + 1, Whitespace)
    IN  IF /\ name # ""
           /\ HasAt(line, eq, "=")
           /\ HasAt(line, open, "(")
           /\ HasAt(line, close, ")")
           /\ HasAt(line, arrow, "=>")
        THEN name ELSE ""

\* the declaration a line adds to functions: function, else class, else arrow
DeclarationMatch(line) ==
    IF FunctionMatch(line) # "" THEN FunctionMatch(line)
    ELSE IF ClassMatch(line) # "" THEN ClassMatch(line)
    ELSE ArrowMatch(line)

IsMarkdown(doc) == doc.languageId = "markdown" \/ EndsWith(ToLowerCase(doc.fileName), ".md")

\* the loop over the lines, from line i on, as it fills headings
RECURSIVE HeadingsLoop(_, _, _)
HeadingsLoop(headings, doc, i) ==
    IF i > Len(doc.lines) THEN headings
    ELSE IF Len(headings) < MaxHeadings /\ HeadingMatch(doc.lines[i]) # NoHeading
         THEN HeadingsLoop(Append(headings, HeadingMatch(doc.lines[i])), doc, i + 1)
    ELSE HeadingsLoop(headings, doc, i + 1)

\* the same loop as it fills exports
RECURSIVE ExportsLoop(_, _, _)
ExportsLoop(exports, doc, i) ==
    IF i > Len(doc.lines) THEN exports
    ELSE IF Len(exports) < MaxExports /\ ExportMatch(doc.lines[i]) # ""
         THEN ExportsLoop(Append(exports, ExportMatch(doc.lines[i])), doc, i + 1)
    ELSE ExportsLoop(exports, doc, i + 1)

\* the same loop as it fills functions, which has no length test
RECURSIVE FunctionsLoop(_, _, _)
FunctionsLoop(functions, doc, i) ==
    IF i > Len(doc.lines) THEN functions
    ELSE IF DeclarationMatch(doc.lines[i]) # ""
         THEN FunctionsLoop(Append(functions, [name |-> DeclarationMatch(doc.lines[i]), line |-> i]),
                            doc, i + 1)
    ELSE FunctionsLoop(functions, doc, i + 1)

\* Array.from(new Set(exports)): the first occurrence of each name, from k on
RECURSIVE UniqueNames(_, _)
UniqueNames(names, k) ==
    IF k > Len(names) THEN <<>>
    ELSE (IF \E j \in 1..(k - 1) : names[j] = names[k] THEN <<>> ELSE <<names[k]>>)
             \o UniqueNames(names, k + 1)

\* functions returned as collected, with no filter
UniqueFunctionsKeepAll(functions, k) == functions

\* functions.filter((item, index, array) => array.findIndex(same name) === index)
RECURSIVE UniqueFunctions(_, _)
UniqueFunctions(functions, k) ==
    IF k > Len(functions) THEN <<>>
    ELSE (IF \E j \in 1..(k - 1) : functions[j].name = functions[k].name
          THEN <<>> ELSE <<functions[k]>>)
             \o UniqueFunctions(functions, k + 1)

analyzeDocument(doc) ==
    [filePath |-> doc.fileName,
     relativePath |-> asRelativePath(doc.fileName),
     lineCount |-> Len(doc.lines),
     headings |-> IF IsMarkdown(doc) THEN HeadingsLoop(<<>>, doc, 1) ELSE <<>>,
     exports |-> UniqueNames(ExportsLoop(<<>>, doc, 1), 1),
     functions |-> UniqueFunctions(FunctionsLoop(<<>>, doc, 1), 1)]

(***************************************************************************)
(* buildNextResponse and extractNamedQuery, extension.ts:732-808.          *)
(* A document is [languageId, fileName, lines]; no document is NoDoc.      *)
(***************************************************************************)
MaxEvidence == 6
MinTokenLength == 3
Stopwords ==
    {"what", "which", "where", "when", "then", "this", "that", "with", "from", "have",
     "your", "about"}

NoDoc == Undefined
NameChars == WordChars \cup {"-"}       \* [a-zA-Z0-9_-]

\* the capture of keyword\s*[:=]?\s*['"]?([a-zA-Z0-9_-]+)['"]? with the
\* keyword at index i, "" when the pattern does not match there
NamedQueryAt(input, keyword, i) ==
    IF ~HasAt(input, i, keyword) THEN ""
    ELSE LET p1 == SkipRun(input, i + Len(keyword), Whitespace)
             p2 == IF p1 <= Len(input) /\ CharAt(input, p1) \in {":", "="} THEN p1 + 1 ELSE p1
             p3 == SkipRun(input, p2, Whitespace)
             p4 == IF p3 <= Len(input) /\ CharAt(input, p3) \in {"'", "\""} THEN p3 + 1 ELSE p3
             p5 == SkipRun(input, p4, NameChars)
         IN  SubSeq(input, p4, p5 - 1)

\* input.match(pattern)?.[1]: the leftmost match; "" stands for undefined
RECURSIVE NamedQueryFrom(_, _, _)
NamedQueryFrom(input, keyword, i) ==
    IF i > Len(input) THEN ""
    ELSE IF NamedQueryAt(input, keyword, i) # "" THEN NamedQueryAt(input, keyword, i)
    ELSE NamedQueryFrom(input, keyword, i + 1)

extractNamedQuery(input, keyword) == NamedQueryFrom(input, keyword, 1)

\* .map(token => token.trim()).filter(token => token.length > 3), from k on
RECURSIVE LongTokens(_, _)
LongTokens(tokens, k) ==
    IF k > Len(tokens) THEN <<>>
    ELSE (IF Len(Trim(tokens[k])) > MinTokenLength THEN <<Trim(tokens[k])>> ELSE <<>>)
             \o LongTokens(tokens, k + 1)

\* tokens.filter(token => !stopwords.has(token)), from k on
RECURSIVE NonStopwords(_, _)
NonStopwords(tokens, k) ==
    IF k > Len(tokens) THEN <<>>
    ELSE (IF tokens[k] \notin Stopwords THEN <<tokens[k]>> ELSE <<>>)
             \o NonStopwords(tokens, k + 1)

Keywords(question) ==
    NonStopwords(LongTokens(SplitNonWord(ToLowerCase(question)), 1), 1)

IsHtml(doc) ==
    doc # NoDoc /\ (doc.languageId = "html" \/ EndsWith(ToLowerCase(doc.fileName), ".html"))
IsCss(doc) ==
    doc # NoDoc /\ (doc.languageId = "css" \/ EndsWith(ToLowerCase(doc.fileName), ".css"))

Evidence(doc, i) == [line |-> i, text |-> Trim(doc.lines[i])]

\* the first loop: lines matching the class or id selector, from line i on
RECURSIVE SelectorScan(_, _, _, _, _)
SelectorScan(evidence, doc, i, classQuery, idQuery) ==
    IF i > Len(doc.lines) THEN evidence
    ELSE LET lowerLine == ToLowerCase(doc.lines[i])
             selectorQuery == IF classQuery # "" THEN "." \o classQuery
                              ELSE IF idQuery # "" THEN "#" \o idQuery ELSE ""
             hit == IF IsHtml(doc)
                    THEN \/ classQuery # "" /\ Includes(lowerLine, "class=")
                                            /\ Includes(lowerLine, classQuery)
                         \/ idQuery # "" /\ Includes(lowerLine, "id=")
                                         /\ Includes(lowerLine, idQuery)
                    ELSE IsCss(doc) /\ selectorQuery # "" /\ Includes(lowerLine, selectorQuery)
             pushed == IF hit THEN Append(evidence, Evidence(doc, i)) ELSE evidence
         IN  IF Len(pushed) >= MaxEvidence THEN pushed
             ELSE SelectorScan(pushed, doc, i + 1, classQuery, idQuery)

\* the second loop without its length test
RECURSIVE KeywordScanUncapped(_, _, _, _)
KeywordScanUncapped(evidence, doc, i, keywords) ==
    IF i > Len(doc.lines) THEN evidence
    ELSE LET lowerLine == ToLowerCase(doc.lines[i])
         IN  IF \E k \in 1..Len(keywords) : Includes(lowerLine, keywords[k])
             THEN KeywordScanUncapped(Append(evidence, Evidence(doc, i)), doc, i + 1, keywords)
             ELSE KeywordScanUncapped(evidence, doc, i + 1, keywords)

\* the second loop with keywords.every in place of keywords.some
RECURSIVE KeywordScanEvery(_, _, _, _)
KeywordScanEvery(evidence, doc, i, keywords) ==
    IF i > Len(doc.lines) \/ Len(evidence) >= MaxEvidence THEN evidence
    ELSE LET lowerLine == ToLowerCase(doc.lines[i])
         IN  IF \A k \in 1..Len(keywords) : Includes(lowerLine, keywords[k])
             THEN KeywordScanEvery(Append(evidence, Evidence(doc, i)), doc, i + 1, keywords)
             ELSE KeywordScanEvery(evidence, doc, i + 1, keywords)

\* the second loop matching a keyword by its first four letters (its stem)
RECURSIVE KeywordScanStem(_, _, _, _)
KeywordScanStem(evidence, doc, i, keywords) ==
    IF i > Len(doc.lines) \/ Len(evidence) >= MaxEvidence THEN evidence
    ELSE LET lowerLine == ToLowerCase(doc.lines[i])
         IN  IF \E k \in 1..Len(keywords) : Includes(lowerLine, SubSeq(keywords[k], 1, 4))
             THEN KeywordScanStem(Append(evidence, Evidence(doc, i)), doc, i + 1, keywords)
             ELSE KeywordScanStem(evidence, doc, i + 1, keywords)

\* the second loop: lines containing a keyword, from line i on
RECURSIVE KeywordScan(_, _, _, _)
KeywordScan(evidence, doc, i, keywords) ==
    IF i > Len(doc.lines) \/ Len(evidence) >= MaxEvidence THEN evidence
    ELSE LET lowerLine == ToLowerCase(doc.lines[i])
         IN  IF \E k \in 1..Len(keywords) : Includes(lowerLine, keywords[k])
             THEN KeywordScan(Append(evidence, Evidence(doc, i)), doc, i + 1, keywords)
             ELSE KeywordScan(evidence, doc, i + 1, keywords)

BestMatchMessage == "Here are the lines in this file that best match your question."
NotFoundMessage ==
    "I could not find matching lines in the current file. Try a different question or choose another file."
ClassMessage(classQuery) == "Matching class \"" \o classQuery \o "\" in this file."
IdMessage(idQuery) == "Matching id \"" \o idQuery \o "\" in this file."
FunctionsMessage(n) ==
    "I could not find direct matches, but this file has " \o ToString(n)
        \o " key functions you can explore."

buildNextResponse(question, doc, current) ==
    LET normalized == ToLowerCase(question)
        keywords == Keywords(question)
        classQuery == extractNamedQuery(normalized, "class")
        idQuery == extractNamedQuery(normalized, "id")
        selected == IF doc # NoDoc /\ (IsHtml(doc) \/ IsCss(doc))
                                   /\ (classQuery # "" \/ idQuery # "")
                    THEN SelectorScan(<<>>, doc, 1, classQuery, idQuery)
                    ELSE <<>>
        evidence == IF doc # NoDoc THEN KeywordScan(selected, doc, 1, keywords) ELSE <<>>
        message1 == IF classQuery # "" THEN ClassMessage(classQuery)
                    ELSE IF idQuery # "" THEN IdMessage(idQuery)
                    ELSE BestMatchMessage
        message2 == IF doc = NoDoc \/ Len(evidence) = 0 THEN NotFoundMessage ELSE message1
        message3 == IF current # Undefined /\ Len(current.functions) > 0 /\ Len(evidence) = 0
                    THEN FunctionsMessage(Len(current.functions))
                    ELSE message2
    IN  [question |-> question, message |-> message3, evidence |-> evidence]


(***************************************************************************)
(* The questions and documents buildNextResponse is checked on: questions  *)
(* of at most MaxWords words on the sample documents, and the sample       *)
(* questions on documents of at most MaxLines lines, of one line repeated  *)
(* up to MaxRepeat times, and on the routing scenario's document.          *)
(***************************************************************************)
MaxWords == 2
MaxLines == 2
MaxRepeat == 8
ScenarioLine == 42

Vocabulary == {"What", "is", "routing?", "router", "class", "header", "id", "\"main\""}
LineVocabulary ==
    {"router.get('/users')", "  <div class=\"header\" id=\"main\">", ".header { color: red }",
     "function main() {}", ""}
DocKinds ==
    {[languageId |-> "html", fileName |-> "/ws/index.html"],
     [languageId |-> "plaintext", fileName |-> "/ws/src/Style.CSS"],
     [languageId |-> "typescript", fileName |-> "/ws/src/app.ts"]}
Document(kind, lines) ==
    [languageId |-> kind.languageId, fileName |-> kind.fileName, lines |-> lines]

RECURSIVE JoinWords(_, _)
JoinWords(words, k) ==
    IF k > Len(words) THEN ""
    ELSE IF k = Len(words) THEN words[k]
    ELSE words[k] \o " " \o JoinWords(words, k + 1)

RoutingQuestion == "What is the routing?"
RouterQuestion == "Where is the router?"
RouterLine == "router.get('/users')"
ScenarioDoc(kind) ==
    Document(kind, [i \in 1..ScenarioLine |->
                       IF i = ScenarioLine THEN RouterLine ELSE "const x = 1;"])

SummaryOf(doc) == IF doc = NoDoc THEN Undefined ELSE analyzeDocument(doc)
Question(q, doc) ==
    [fn |-> "buildNextResponse", question |-> q, doc |-> doc, current |-> SummaryOf(doc)]

SampleQuestions ==
    {"", "What is", "class header", "id \"main\"", "header main", RoutingQuestion, RouterQuestion}
SampleDocs ==
    {NoDoc} \cup {Document(kind, <<line>>) : kind \in DocKinds, line \in LineVocabulary}

MatcherInput(w) ==
    \/ \E n \in 0..MaxWords : \E words \in [1..n -> Vocabulary] : \E doc \in SampleDocs :
          w = Question(JoinWords(words, 1), doc)
    \/ \E q \in SampleQuestions, kind \in DocKinds :
          \/ \E m \in 0..MaxLines : \E lines \in [1..m -> LineVocabulary] :
                w = Question(q, Document(kind, lines))
          \/ \E m \in (MaxLines + 1)..MaxRepeat : \E line \in LineVocabulary :
                w = Question(q, Document(kind, [i \in 1..m |-> line]))
          \/ w = Question(q, ScenarioDoc(kind))

InitMatcher ==
    /\ SessionIdle
    /\ MatcherInput(call)
    /\ ret = NotRun

CallBuildNextResponse ==
    /\ call.fn = "buildNextResponse"
    /\ ret = NotRun
    /\ ret' = Returned(buildNextResponse(call.question, call.doc, call.current))
    /\ UNCHANGED <<call, sessionVars>>

SpecMatcher == InitMatcher /\ [][CallBuildNextResponse]_vars

MatcherDone == call.fn = "buildNextResponse" /\ ret.done

\* C8: the evidence of the QAResult has at most 6 entries, selector-scan and
\* keyword-scan matches counted together.
EvidenceAtMostSix == MatcherDone => Len(ret.value.evidence) <= MaxEvidence

\* C8's case: both scans contribute, the evidence is full and the keyword
\* scan stopped before the last line of the document.
EvidenceFullWitness ==
    /\ MatcherDone
    /\ Len(ret.value.evidence) = MaxEvidence
    /\ \E i \in 1..(MaxEvidence - 1) : ret.value.evidence[i].line >= ret.value.evidence[i + 1].line
    /\ ret.value.evidence[MaxEvidence].line < Len(call.doc.lines)

\* no token of the question is longer than 3 characters and not a stopword,
\* and the question names no class and no id
NoKeywordNoSelector(question) ==
    /\ \A t \in Range(SplitNonWord(ToLowerCase(question))) : Len(t) <= MinTokenLength \/ t \in Stopwords
    /\ \A i \in 1..Len(question) :
          /\ NamedQueryAt(ToLowerCase(question), "class", i) = ""
          /\ NamedQueryAt(ToLowerCase(question), "id", i) = ""

\* C9: a question with no keyword and no selector gets empty evidence, with
\* the declarations pointer when the summary has a declaration and the
\* not-found message otherwise.
NoKeywordNotFound ==
    MatcherDone /\ NoKeywordNoSelector(call.question) =>
        /\ ret.value.evidence = <<>>
        /\ ret.value.message =
              IF call.current # Undefined /\ Len(call.current.functions) > 0
              THEN FunctionsMessage(Len(call.current.functions))
              ELSE NotFoundMessage

\* C9's case: such a question ("What is") asked of a document with lines
\* and a declaration.
NoKeywordWitness ==
    /\ MatcherDone
    /\ NoKeywordNoSelector(call.question)
    /\ Len(call.question) > 0
    /\ call.doc # NoDoc
    /\ Len(call.current.functions) > 0
    /\ ret.value.message = FunctionsMessage(1)

IsRoutingScenario(question) ==
    /\ MatcherDone
    /\ call.question = question
    /\ call.doc # NoDoc
    /\ Len(call.doc.lines) = ScenarioLine
    /\ call.doc.lines[ScenarioLine] = RouterLine

MaxInFlight == 2    \* handler invocations at an await at the same time

AppFile == "/ws/src/app.ts"
PageFile == "/ws/index.html"
GoneFile == "/ws/src/gone.ts"       \* listed in the panel, deleted since
SessionFiles == {AppFile, PageFile}
TextDocument(path) ==
    IF path = AppFile
    THEN [languageId |-> "typescript", fileName |-> AppFile,
          lines |-> <<"function main() {}", "router.get('/users')">>]
    ELSE [languageId |-> "html", fileName |-> PageFile,
          lines |-> <<"  <div class=\"header\" id=\"main\">">>]
TypedQuestions == {"  ", " router "}

Task(command, path, line, text) ==
    [command |-> command, path |-> path, line |-> line, text |-> text,
     pc |-> "start", doc |-> NoDoc, panel |-> NoPanel]
Room == Cardinality(tasks) < MaxInFlight
Advance(t, next) == tasks' = (tasks \ {t}) \cup {next}
Html(summary, response) == [rendered |-> TRUE, summary |-> summary, response |-> response]
HasAskBox == panelHtml.rendered /\ panelHtml.summary # Undefined

\* currentPanel, as a task that calls updateGuidePanel passes it
ThePanel == IF currentPanel THEN "open" ELSE NoPanel

\* the command codebase-guide.start: openGuidePanel up to its await, which
\* creates the panel when there is none
StartCommand ==
    /\ Room
    /\ currentPanel' = TRUE
    /\ tasks' = tasks \cup {[Task("start", "", 0, "") EXCEPT !.pc = "update", !.panel = "open"]}
    /\ UNCHANGED <<learnedFiles, activeContext, panelHtml, questionInput, editor, call, ret>>

\* the user closes the panel: onDidDispose; the tasks that hold the panel
\* now hold a disposed one
DisposePanel ==
    /\ currentPanel
    /\ currentPanel' = FALSE
    /\ panelHtml' = NoHtml
    /\ questionInput' = ""
    /\ tasks' = {IF t.panel = "open" THEN [t EXCEPT !.panel = "disposed"] ELSE t : t \in tasks}
    /\ UNCHANGED <<learnedFiles, activeContext, editor, call, ret>>

\* a click on a .learn-btn of the panel
LearnBtnClick(path) ==
    /\ panelHtml.rendered
    /\ Room
    /\ tasks' = tasks \cup {Task("learnFile", path, 0, "")}
    /\ UNCHANGED <<learnedFiles, activeContext, currentPanel, panelHtml,
                   questionInput, editor, call, ret>>

\* the lines the rendered panel has a .fn-link for
LinkedLines ==
    IF ~HasAskBox THEN {}
    ELSE {panelHtml.summary.functions[i].line : i \in 1..Len(panelHtml.summary.functions)}
         \cup (IF panelHtml.response = Undefined THEN {}
               ELSE {panelHtml.response.evidence[i].line :
                        i \in 1..Len(panelHtml.response.evidence)})

\* a click on a .fn-link of the panel
FnLinkClick(line) ==
    /\ line \in LinkedLines
    /\ line # 0
    /\ Room
    /\ tasks' = tasks \cup {Task("jumpToLine", panelHtml.summary.filePath, line, "")}
    /\ UNCHANGED <<learnedFiles, activeContext, currentPanel, panelHtml,
                   questionInput, editor, call, ret>>

\* an openFile message, as the open link of the guide posts it
PostOpenFile(path) ==
    /\ panelHtml.rendered
    /\ Room
    /\ tasks' = tasks \cup {Task("openFile", path, 0, "")}
    /\ UNCHANGED <<learnedFiles, activeContext, currentPanel, panelHtml,
                   questionInput, editor, call, ret>>

\* the user edits the question input
TypeQuestion(raw) ==
    /\ HasAskBox
    /\ raw # questionInput
    /\ questionInput' = raw
    /\ UNCHANGED <<learnedFiles, activeContext, currentPanel, panelHtml,
                   editor, tasks, call, ret>>

\* the listeners post whatever the input holds
AskGuardOff(value) == TRUE

\* if (!questionInput.value.trim()) { return; }
AskGuard(value) == Trim(value) # ""

\* a click on #askNextBtn, or Enter in the input
AskBtnClick ==
    /\ HasAskBox
    /\ IF AskGuard(questionInput)
       THEN /\ Room
            /\ tasks' = tasks \cup {Task("askNext", "", 0, Trim(questionInput))}
            /\ UNCHANGED <<learnedFiles, activeContext, currentPanel, panelHtml,
                           questionInput, editor, call, ret>>
       ELSE UNCHANGED vars

\* await vscode.workspace.openTextDocument(fileUri), which rejects for a
\* file that is not there
OpenTextDocument(t) ==
    /\ t.command \in {"learnFile", "openFile", "jumpToLine"}
    /\ t.pc = "start"
    /\ IF t.path \in SessionFiles
       THEN Advance(t, [t EXCEPT !.pc = "show", !.doc = TextDocument(t.path)])
       ELSE tasks' = tasks \ {t}
    /\ UNCHANGED <<learnedFiles, activeContext, currentPanel, panelHtml,
                   questionInput, editor, call, ret>>

\* vscode.window.showTextDocument(doc): the editor shows doc
ShowTextDocument(doc) ==
    IF editor.path = doc.fileName THEN editor ELSE [path |-> doc.fileName, line |-> 1]

\* learnFile replacing the learned set by the file
LearnFileCommitReset(t) ==
    /\ t.command = "learnFile"
    /\ t.pc = "show"
    /\ editor' = ShowTextDocument(t.doc)
    /\ currentSummary' = analyzeDocument(t.doc)
    /\ nextResponse' = Undefined
    /\ currentLearnedUri' = t.doc.fileName
    /\ learnedFiles' = {t.doc.fileName}
    /\ Advance(t, [t EXCEPT !.pc = "update", !.panel = ThePanel])
    /\ UNCHANGED <<currentPanel, panelHtml, questionInput, call, ret>>

\* learnFile's commit without the add to the learned set
LearnFileCommitNoAdd(t) ==
    /\ t.command = "learnFile"
    /\ t.pc = "show"
    /\ editor' = ShowTextDocument(t.doc)
    /\ currentSummary' = analyzeDocument(t.doc)
    /\ nextResponse' = Undefined
    /\ currentLearnedUri' = t.doc.fileName
    /\ Advance(t, [t EXCEPT !.pc = "update", !.panel = ThePanel])
    /\ UNCHANGED <<learnedFiles, currentPanel, panelHtml, questionInput, call, ret>>

\* learnFile after its awaits, and the handler up to updateGuidePanel's await
LearnFileCommit(t) ==
    /\ t.command = "learnFile"
    /\ t.pc = "show"
    /\ editor' = ShowTextDocument(t.doc)
    /\ currentSummary' = analyzeDocument(t.doc)
    /\ nextResponse' = Undefined
    /\ currentLearnedUri' = t.doc.fileName
    /\ learnedFiles' = learnedFiles \cup {t.doc.fileName}
    /\ Advance(t, [t EXCEPT !.pc = "update", !.panel = ThePanel])
    /\ UNCHANGED <<currentPanel, panelHtml, questionInput, call, ret>>

\* the openFile handler making the file the current learned file
OpenFileShowLearns(t) ==
    /\ t.command = "openFile"
    /\ t.pc = "show"
    /\ editor' = ShowTextDocument(t.doc)
    /\ currentLearnedUri' = t.doc.fileName
    /\ tasks' = tasks \ {t}
    /\ UNCHANGED <<learnedFiles, currentSummary, nextResponse, currentPanel, panelHtml, questionInput, call, ret>>

\* the openFile handler after openTextDocument
OpenFileShow(t) ==
    /\ t.command = "openFile"
    /\ t.pc = "show"
    /\ editor' = ShowTextDocument(t.doc)
    /\ tasks' = tasks \ {t}
    /\ UNCHANGED <<learnedFiles, activeContext, currentPanel, panelHtml,
                   questionInput, call, ret>>

\* the jumpToLine handler after openTextDocument: the selection goes to
\* line Math.max(0, line - 1), counted from 0
JumpToLineShow(t) ==
    /\ t.command = "jumpToLine"
    /\ t.pc = "show"
    /\ editor' = [path |-> t.doc.fileName, line |-> (IF t.line >= 1 THEN t.line - 1 ELSE 0) + 1]
    /\ tasks' = tasks \ {t}
    /\ UNCHANGED <<learnedFiles, activeContext, currentPanel, panelHtml,
                   questionInput, call, ret>>

\* nextResponse = buildNextResponse(...) and the handler up to
\* updateGuidePanel's await
Respond(t, doc) ==
    /\ nextResponse' = buildNextResponse(t.text, doc, currentSummary)
    /\ Advance(t, [t EXCEPT !.pc = "update", !.doc = doc, !.panel = ThePanel])
    /\ UNCHANGED <<learnedFiles, currentLearnedUri, currentSummary, currentPanel, panelHtml, questionInput, editor, call, ret>>

\* the askNext handler up to its await of openTextDocument(currentLearnedUri)
AskNextStart(t) ==
    /\ t.command = "askNext"
    /\ t.pc = "start"
    /\ IF currentLearnedUri = UndefinedUri
       THEN Respond(t, NoDoc)
       ELSE /\ Advance(t, [t EXCEPT !.pc = "respond", !.doc = TextDocument(currentLearnedUri)])
            /\ UNCHANGED <<learnedFiles, activeContext, currentPanel, panelHtml,
                           questionInput, editor, call, ret>>

\* the askNext handler after openTextDocument
AskNextRespond(t) ==
    /\ t.command = "askNext"
    /\ t.pc = "respond"
    /\ Respond(t, t.doc)

\* updateGuidePanel after its awaits: panel.webview.html = getGuideHtml(...),
\* which throws when the panel is undefined or disposed
UpdateGuidePanel(t) ==
    /\ t.pc = "update"
    /\ IF t.panel = "open"
       THEN /\ panelHtml' = Html(currentSummary, nextResponse)
            /\ questionInput' = ""
       ELSE UNCHANGED <<panelHtml, questionInput>>
    /\ tasks' = tasks \ {t}
    /\ UNCHANGED <<learnedFiles, activeContext, currentPanel, editor, call, ret>>

Init ==
    /\ SessionIdle
    /\ call = NoCall
    /\ ret = NotRun

Next ==
    \/ StartCommand
    \/ DisposePanel
    \/ \E path \in SessionFiles \cup {GoneFile} : LearnBtnClick(path)
    \/ \E line \in LinkedLines : FnLinkClick(line)
    \/ \E path \in SessionFiles : PostOpenFile(path)
    \/ \E raw \in TypedQuestions : TypeQuestion(raw)
    \/ AskBtnClick
    \/ \E t \in tasks : OpenTextDocument(t)
    \/ \E t \in tasks : LearnFileCommit(t)
    \/ \E t \in tasks : OpenFileShow(t)
    \/ \E t \in tasks : JumpToLineShow(t)
    \/ \E t \in tasks : AskNextStart(t)
    \/ \E t \in tasks : AskNextRespond(t)
    \/ \E t \in tasks : UpdateGuidePanel(t)

Spec == Init /\ [][Next]_vars


\* C4: across the session operations the learned set only grows: a step
\* never removes a path from learnedFiles.
LearnedSetOnlyGrows == [][learnedFiles \subseteq learnedFiles']_vars

\* C4's case: two files were learned, one after the other, and a question
\* was answered and rendered since.
LearnedSetGrewWitness ==
    /\ learnedFiles = SessionFiles
    /\ nextResponse # Undefined
    /\ panelHtml.rendered
    /\ panelHtml.response = nextResponse

\* C5: openFile, jumpToLine and updateGuidePanel leave the learned set and
\* the active context unchanged, askNext changes nothing of them but
\* nextResponse, and no other step than learnFile's and askNext's writes them.
OnlyLearnAndAskWrite ==
    [][/\ (\E t \in tasks : OpenFileShow(t) \/ JumpToLineShow(t) \/ UpdateGuidePanel(t))
            => UNCHANGED <<learnedFiles, activeContext>>
       /\ (\E t \in tasks : AskNextStart(t) \/ AskNextRespond(t))
            => UNCHANGED <<learnedFiles, currentLearnedUri, currentSummary>>
       /\ <<learnedFiles, activeContext>>' # <<learnedFiles, activeContext>>
            => \E t \in tasks : LearnFileCommit(t) \/ AskNextStart(t) \/ AskNextRespond(t)]_vars

\* C5's case: with a file learned and a question answered, the panel was
\* refreshed and openFile or jumpToLine showed another file than the
\* learned one.
FrameWitness ==
    /\ currentLearnedUri # UndefinedUri
    /\ nextResponse # Undefined
    /\ panelHtml = Html(currentSummary, nextResponse)
    /\ editor.path \in SessionFiles \ {currentLearnedUri}

NoBlankQuestion ==
    /\ \A t \in tasks : t.command = "askNext" => Trim(t.text) # ""
    /\ nextResponse # Undefined => Trim(nextResponse.question) # ""

\* C7: a question that is empty after trimming never reaches the matcher:
\* no askNext handler runs on one, no stored response answers one, and a
\* click on Ask with such an input leaves tasks and nextResponse unchanged.
BlankQuestionRejected ==
    /\ []NoBlankQuestion
    /\ [][HasAskBox /\ Trim(questionInput) = "" /\ AskBtnClick
            => UNCHANGED <<tasks, nextResponse>>]_vars

\* C7's case: the input holds only spaces while a response is stored and
\* the Ask button is there to be clicked.
BlankQuestionWitness ==
    /\ HasAskBox
    /\ questionInput = "  "
    /\ nextResponse # Undefined
    /\ tasks = {}


SelectorUsed(keyword) ==
    /\ extractNamedQuery(ToLowerCase(call.question), keyword) # ""
    /\ IsHtml(call.doc) \/ IsCss(call.doc)

\* C11: with evidence, the message is the class variant exactly when a class
\* name was extracted and the selector scan ran (markup or stylesheet), else
\* the id variant exactly when an id was so used, else the best-match message.
MessageBySelectorUsed ==
    MatcherDone /\ ret.value.evidence # <<>> =>
        ret.value.message =
            IF SelectorUsed("class")
            THEN ClassMessage(extractNamedQuery(ToLowerCase(call.question), "class"))
            ELSE IF SelectorUsed("id")
            THEN IdMessage(extractNamedQuery(ToLowerCase(call.question), "id"))
            ELSE BestMatchMessage


(***************************************************************************)
(* The documents analyzeDocument is checked on: documents of at most       *)
(* MaxLines lines of SummaryLines, and generated documents of up to        *)
(* MaxGenerated lines whose names repeat with a period, or whose first     *)
(* name is declared on several lines in a row.                             *)
(***************************************************************************)
MaxGenerated == 10

SummaryLines ==
    {"# Title", "##  Setup ", "#### deep", "export function load() {}", "  function load() {}",
     "export default class Load", "class load {", "export const run = async (a) => 1",
     "   function indented() {}", "const x = 1;"}
SummaryKinds ==
    {[languageId |-> "markdown", fileName |-> "/ws/notes.txt"],
     [languageId |-> "plaintext", fileName |-> "/ws/README.MD"],
     [languageId |-> "typescript", fileName |-> "/ws/src/app.ts"]}
Templates == {"heading", "export function", "export const", "function", "class"}

\* line i of a generated document: the name repeats every period lines
GeneratedLine(template, period, i) ==
    LET name == "n" \o ToString(i % period)
    IN  CASE template = "heading" -> "# " \o name
          [] template = "export function" -> "export function " \o name \o "() {}"
          [] template = "export const" -> "export const " \o name \o " = () => 1"
          [] template = "function" -> "  async function " \o name \o "(a) {}"
          [] OTHER -> "export class " \o name \o " {"

\* line i of a document of overloads: the first name is declared on the
\* first repeats lines, every later line declares a name of its own
OverloadLine(template, repeats, i) ==
    GeneratedLine(template, i + 1, IF i <= repeats THEN 0 ELSE i - repeats)

AnalyzerInput(w) ==
    \E kind \in SummaryKinds :
       \/ \E m \in 0..MaxLines : \E lines \in [1..m -> SummaryLines] :
             w = [fn |-> "analyzeDocument", doc |-> Document(kind, lines)]
       \/ \E m \in 1..MaxGenerated, template \in Templates : \E period \in 1..m :
             w = [fn |-> "analyzeDocument",
                  doc |-> Document(kind, [i \in 1..m |-> GeneratedLine(template, period, i)])]
       \/ \E m \in 1..MaxGenerated, template \in Templates : \E repeats \in 1..m :
             w = [fn |-> "analyzeDocument",
                  doc |-> Document(kind, [i \in 1..m |-> OverloadLine(template, repeats, i)])]

InitAnalyzer ==
    /\ SessionIdle
    /\ AnalyzerInput(call)
    /\ ret = NotRun

CallAnalyzeDocument ==
    /\ call.fn = "analyzeDocument"
    /\ ret = NotRun
    /\ ret' = Returned(analyzeDocument(call.doc))
    /\ UNCHANGED <<call, sessionVars>>

SpecAnalyzer == InitAnalyzer /\ [][CallAnalyzeDocument]_vars

AnalyzerDone == call.fn = "analyzeDocument" /\ ret.done

\* the lines of the document that declare name
DeclaringLines(name) ==
    {i \in 1..Len(call.doc.lines) : DeclarationMatch(call.doc.lines[i]) = name}

\* C12: the summary has no duplicate name in functions and none in exports,
\* at most 5 headings and at most 8 exports, and each function carries the
\* first line that declares its name.
SummaryUniqueAndCapped ==
    AnalyzerDone =>
        /\ \A i, j \in 1..Len(ret.value.functions) :
              ret.value.functions[i].name = ret.value.functions[j].name => i = j
        /\ IsInjective(ret.value.exports)
        /\ Len(ret.value.headings) <= MaxHeadings
        /\ Len(ret.value.exports) <= MaxExports
        /\ \A i \in 1..Len(ret.value.functions) :
              /\ ret.value.functions[i].line \in DeclaringLines(ret.value.functions[i].name)
              /\ \A l \in DeclaringLines(ret.value.functions[i].name) :
                    ret.value.functions[i].line <= l

\* C12's case: names are declared and exported on several lines each, on
\* more than 8 exporting lines in all.
SummaryDuplicatesWitness ==
    /\ AnalyzerDone
    /\ Len(ret.value.functions) >= 2
    /\ \A i \in 1..Len(ret.value.functions) :
          Cardinality(DeclaringLines(ret.value.functions[i].name)) >= 2
    /\ Cardinality({i \in 1..Len(call.doc.lines) : ExportMatch(call.doc.lines[i]) # ""})
          > MaxExports
    /\ Len(ret.value.exports) >= 2


(***************************************************************************)
(* detectFrameworks and readWorkspacePackageJson, extension.ts:1011-1100.  *)
(* The manifest is what the workspace holds for the selected package.json: *)
(* its state and, when it parses, its two dependency tables as the sets of *)
(* their keys (a missing table has no keys).  search[k] is the answer of   *)
(* findFiles for the k-th fallback glob.                                   *)
(***************************************************************************)
DepRules ==
    <<[deps |-> {"next"}, name |-> "Next.js"],
      [deps |-> {"react"}, name |-> "React"],
      [deps |-> {"vite"}, name |-> "Vite"],
      [deps |-> {"vue"}, name |-> "Vue"],
      [deps |-> {"@angular/core"}, name |-> "Angular"],
      [deps |-> {"svelte", "@sveltejs/kit"}, name |-> "Svelte"],
      [deps |-> {"nuxt"}, name |-> "Nuxt"],
      [deps |-> {"astro"}, name |-> "Astro"],
      [deps |-> {"@nestjs/core"}, name |-> "NestJS"],
      [deps |-> {"express"}, name |-> "Express"],
      [deps |-> {"fastify"}, name |-> "Fastify"]>>

FallbackFiles ==
    <<[glob |-> "**/next.config.*", name |-> "Next.js"],
      [glob |-> "**/vite.config.*", name |-> "Vite"],
      [glob |-> "**/angular.json", name |-> "Angular"],
      [glob |-> "**/svelte.config.*", name |-> "Svelte"],
      [glob |-> "**/nuxt.config.*", name |-> "Nuxt"],
      [glob |-> "**/astro.config.*", name |-> "Astro"],
      [glob |-> "**/nest-cli.json", name |-> "NestJS"]>>

\* the parsed manifest, undefined when there is none or the try block throws
readWorkspacePackageJson(manifest) ==
    IF manifest.state = "parsed"
    THEN [dependencies |-> manifest.dependencies, devDependencies |-> manifest.devDependencies]
    ELSE Undefined

\* deps read from the dependencies table alone
MergedDepsNoDev(packageJson) ==
    IF packageJson = Undefined THEN {} ELSE packageJson.dependencies

\* { ...dependencies, ...devDependencies }: the keys of deps
MergedDeps(packageJson) ==
    IF packageJson = Undefined THEN {}
    ELSE packageJson.dependencies \cup packageJson.devDependencies

\* frameworks.add(name) on a Set, which keeps insertion order
AddFramework(frameworks, name) ==
    IF name \in Range(frameworks) THEN frameworks ELSE Append(frameworks, name)

\* the hasDep tests, from the k-th on
RECURSIVE DepLoop(_, _, _)
DepLoop(frameworks, deps, k) ==
    IF k > Len(DepRules) THEN frameworks
    ELSE IF DepRules[k].deps \cap deps # {}
         THEN DepLoop(AddFramework(frameworks, DepRules[k].name), deps, k + 1)
    ELSE DepLoop(frameworks, deps, k + 1)

\* the loop over fallbackFiles, from the k-th on
RECURSIVE FallbackLoop(_, _, _, _)
FallbackLoop(frameworks, consulted, search, k) ==
    IF k > Len(FallbackFiles)
    THEN [threw |-> FALSE, frameworks |-> frameworks, consulted |-> consulted]
    ELSE IF ~search[k].ok
         THEN [threw |-> TRUE, frameworks |-> <<>>,
               consulted |-> Append(consulted, FallbackFiles[k].glob)]
    ELSE FallbackLoop(IF search[k].found
                      THEN AddFramework(frameworks, FallbackFiles[k].name) ELSE frameworks,
                      Append(consulted, FallbackFiles[k].glob), search, k + 1)

\* the result: whether the call rejects, the frameworks, and the fallback
\* globs findFiles was called with
detectFrameworks(manifest, search) ==
    IF manifest.state = "searchFailed"
    THEN [threw |-> TRUE, frameworks |-> <<>>, consulted |-> <<>>]
    ELSE LET frameworks == DepLoop(<<>>, MergedDeps(readWorkspacePackageJson(manifest)), 1)
         IN  IF Len(frameworks) > 0
             THEN [threw |-> FALSE, frameworks |-> frameworks, consulted |-> <<>>]
             ELSE FallbackLoop(<<>>, <<>>, search, 1)


(***************************************************************************)
(* The workspaces detectFrameworks is checked on: manifests with at most   *)
(* MaxDeps keys in their two tables together, and at most MaxConfigs       *)
(* fallback globs with a match.                                            *)
(***************************************************************************)
MaxDeps == 2
MaxConfigs == 2

DepNames == UNION {DepRules[k].deps : k \in 1..Len(DepRules)} \cup {"lodash"}
SmallDepSets == {deps \in SUBSET DepNames : Cardinality(deps) <= MaxDeps}
Manifest(state, dependencies, devDependencies) ==
    [state |-> state, dependencies |-> dependencies, devDependencies |-> devDependencies]
SampleManifests ==
    {Manifest("absent", {}, {}), Manifest("parsed", {"react"}, {}),
     Manifest("parsed", {}, {"lodash"})}
FoundSets == {found \in SUBSET (1..Len(FallbackFiles)) : Cardinality(found) <= MaxConfigs}
ConfigSearch(found, failed) ==
    [k \in 1..Len(FallbackFiles) |-> [ok |-> k \notin failed, found |-> k \in found]]

DetectorInput(w) ==
    \/ \E found \in FoundSets :
          \/ \E state \in {"absent", "unreadable", "malformed", "searchFailed"} :
                w = [fn |-> "detectFrameworks", manifest |-> Manifest(state, {}, {}),
                     search |-> ConfigSearch(found, {})]
          \/ \E dependencies \in SmallDepSets, devDependencies \in SmallDepSets :
                /\ Cardinality(dependencies) + Cardinality(devDependencies) <= MaxDeps
                /\ w = [fn |-> "detectFrameworks",
                        manifest |-> Manifest("parsed", dependencies, devDependencies),
                        search |-> ConfigSearch(found, {})]
    \/ \E found \in FoundSets, manifest \in SampleManifests :
          \E k \in (1..Len(FallbackFiles)) \ found :
             w = [fn |-> "detectFrameworks", manifest |-> manifest,
                  search |-> ConfigSearch(found, {k})]

InitDetector ==
    /\ SessionIdle
    /\ DetectorInput(call)
    /\ ret = NotRun

CallDetectFrameworks ==
    /\ call.fn = "detectFrameworks"
    /\ ret = NotRun
    /\ ret' = Returned(detectFrameworks(call.manifest, call.search))
    /\ UNCHANGED <<call, sessionVars>>

SpecDetector == InitDetector /\ [][CallDetectFrameworks]_vars

DetectorDone == call.fn = "detectFrameworks" /\ ret.done

\* the frameworks the keys of both tables of the manifest map to
ManifestFrameworks ==
    IF call.manifest.state # "parsed" THEN {}
    ELSE {DepRules[k].name : k \in {j \in 1..Len(DepRules) :
             DepRules[j].deps \cap (call.manifest.dependencies
                                      \cup call.manifest.devDependencies) # {}}}
ConfigFrameworks ==
    {FallbackFiles[k].name : k \in {j \in 1..Len(FallbackFiles) : call.search[j].found}}
EverySearchAnswers ==
    /\ call.manifest.state # "searchFailed"
    /\ \A k \in 1..Len(FallbackFiles) : call.search[k].ok

\* C13: while the file search answers, detectFrameworks returns exactly the
\* frameworks of the manifest's dependencies and devDependencies when there
\* is one, without consulting the config globs; otherwise exactly the
\* frameworks whose config glob has a match, and never an error.
DetectorManifestThenConfig ==
    DetectorDone /\ EverySearchAnswers =>
        /\ ~ret.value.threw
        /\ IsInjective(ret.value.frameworks)
        /\ IF ManifestFrameworks # {}
           THEN /\ Range(ret.value.frameworks) = ManifestFrameworks
                /\ ret.value.consulted = <<>>
           ELSE Range(ret.value.frameworks) = ConfigFrameworks

\* C13's case: a framework comes from devDependencies alone, another from
\* dependencies, and config files of a third lie unused in the workspace.
DetectorWitness ==
    /\ DetectorDone
    /\ EverySearchAnswers
    /\ call.manifest.state = "parsed"
    /\ Len(ret.value.frameworks) = 2
    /\ \E name \in Range(ret.value.frameworks) :
          \A k \in 1..Len(DepRules) :
             DepRules[k].name = name => DepRules[k].deps \cap call.manifest.dependencies = {}
    /\ ConfigFrameworks \ Range(ret.value.frameworks) # {}


(***************************************************************************)
(* buildWalkthroughSteps, extension.ts:810-1009.  A step is its title and  *)
(* its target, UndefinedUri when it has none; the details text of a step   *)
(* is fixed by its title and is left out.                                  *)
(***************************************************************************)
Step(title, target) == [title |-> title, target |-> target]

\* suggestions.find(s => suffixes.some(suffix => s.label.toLowerCase().endsWith(suffix)))?.uri,
\* from the k-th suggestion on
RECURSIVE FindByEndsWithFrom(_, _, _)
FindByEndsWithFrom(suggestions, suffixes, k) ==
    IF k > Len(suggestions) THEN UndefinedUri
    ELSE IF \E i \in 1..Len(suffixes) : EndsWith(ToLowerCase(suggestions[k].label), suffixes[i])
         THEN suggestions[k].uri
    ELSE FindByEndsWithFrom(suggestions, suffixes, k + 1)

findByEndsWith(suggestions, suffixes) == FindByEndsWithFrom(suggestions, suffixes, 1)

\* suggestions.find(s => s.label.toLowerCase().includes(snippet))?.uri
RECURSIVE FindByContainsFrom(_, _, _)
FindByContainsFrom(suggestions, snippet, k) ==
    IF k > Len(suggestions) THEN UndefinedUri
    ELSE IF Includes(ToLowerCase(suggestions[k].label), snippet) THEN suggestions[k].uri
    ELSE FindByContainsFrom(suggestions, snippet, k + 1)

findByContains(suggestions, snippet) == FindByContainsFrom(suggestions, snippet, 1)

has(frameworks, name) == name \in Range(frameworks)

FirstSteps(suggestions) ==
    <<Step("Read the README", findByEndsWith(suggestions, <<"readme.md">>)),
      Step("Check package or build config",
           findByEndsWith(suggestions,
                          <<"package.json", "pyproject.toml", "pom.xml", "build.gradle">>))>>

NextJsSteps(suggestions) ==
    <<Step("Review Next.js routing",
           findByEndsWith(suggestions, <<"app/layout.tsx", "app/page.tsx", "pages/_app.tsx",
                                         "pages/index.tsx">>)),
      Step("Check API routes",
           IF findByContains(suggestions, "pages/api/") # UndefinedUri
           THEN findByContains(suggestions, "pages/api/")
           ELSE findByContains(suggestions, "app/api/"))>>

RootComponentStep(suggestions) ==
    Step("Locate the root component",
         findByEndsWith(suggestions, <<"src/App.tsx", "src/App.jsx", "src/App.ts", "src/App.js">>))

ViteEntryStep(suggestions) ==
    Step("Check Vite entry",
         findByEndsWith(suggestions, <<"src/main.tsx", "src/main.jsx", "src/main.ts",
                                       "src/main.js">>))

\* the React steps with the plain step pushed whenever React is there
ReactStepsNoElse(suggestions, frameworks) ==
    (IF has(frameworks, "React") /\ has(frameworks, "Vite")
     THEN <<ViteEntryStep(suggestions), RootComponentStep(suggestions)>> ELSE <<>>)
    \o (IF has(frameworks, "React") THEN <<RootComponentStep(suggestions)>> ELSE <<>>)

\* if (has('React') && has('Vite')) ... else if (has('React')) ...
ReactSteps(suggestions, frameworks) ==
    IF has(frameworks, "React") /\ has(frameworks, "Vite")
    THEN <<ViteEntryStep(suggestions), RootComponentStep(suggestions)>>
    ELSE IF has(frameworks, "React") THEN <<RootComponentStep(suggestions)>>
    ELSE <<>>

VueSteps(suggestions) ==
    <<Step("Check Vue entry", findByEndsWith(suggestions, <<"src/main.ts", "src/main.js">>)),
      Step("Review root component", findByEndsWith(suggestions, <<"src/App.vue">>)),
      Step("Check routing", findByContains(suggestions, "src/router/"))>>

AngularSteps(suggestions) ==
    <<Step("Check Angular module", findByEndsWith(suggestions, <<"src/app/app.module.ts">>)),
      Step("Check routing module",
           findByEndsWith(suggestions, <<"src/app/app-routing.module.ts">>))>>

SvelteSteps(suggestions) ==
    <<Step("Check Svelte entry", findByContains(suggestions, "src/routes/")),
      Step("Check Svelte config",
           findByEndsWith(suggestions, <<"svelte.config.js", "svelte.config.ts">>))>>

AstroSteps(suggestions) ==
    <<Step("Check Astro pages", findByContains(suggestions, "src/pages/")),
      Step("Check Astro config",
           findByEndsWith(suggestions, <<"astro.config.mjs", "astro.config.ts",
                                         "astro.config.js">>))>>

NuxtSteps(suggestions) ==
    <<Step("Check Nuxt app entry", findByEndsWith(suggestions, <<"app.vue", "pages/index.vue">>)),
      Step("Check Nuxt config",
           findByEndsWith(suggestions, <<"nuxt.config.ts", "nuxt.config.js",
                                         "nuxt.config.mjs">>))>>

NestJsSteps(suggestions) ==
    <<Step("Check NestJS entry", findByEndsWith(suggestions, <<"src/main.ts">>)),
      Step("Inspect the root module", findByEndsWith(suggestions, <<"src/app.module.ts">>))>>

ServerSteps(suggestions) ==
    <<Step("Find server setup",
           findByEndsWith(suggestions, <<"src/app.ts", "src/server.ts", "server.js", "app.js">>)),
      Step("Trace route registration", findByContains(suggestions, "src/routes/"))>>

LastSteps(suggestions) ==
    <<Step("Find the app entry point",
           findByEndsWith(suggestions,
                          <<"src/index.ts", "src/index.js", "src/main.ts", "src/main.js",
                            "src/app.ts", "src/app.js", "src/server.ts", "src/server.js">>)),
      Step("Trace routes or pages",
           findByEndsWith(suggestions,
                          <<"src/routes/index.ts", "src/routes/index.js", "src/pages/index.tsx",
                            "src/pages/index.jsx">>)),
      Step("Inspect controllers or handlers", findByContains(suggestions, "controllers/")),
      Step("Follow data and services", findByContains(suggestions, "services/"))>>

When(condition, steps) == IF condition THEN steps ELSE <<>>

\* the steps in the order the function pushes them
buildWalkthroughSteps(suggestions, frameworks) ==
    FirstSteps(suggestions)
    \o When(has(frameworks, "Next.js"), NextJsSteps(suggestions))
    \o ReactSteps(suggestions, frameworks)
    \o When(has(frameworks, "Vue"), VueSteps(suggestions))
    \o When(has(frameworks, "Angular"), AngularSteps(suggestions))
    \o When(has(frameworks, "Svelte"), SvelteSteps(suggestions))
    \o When(has(frameworks, "Astro"), AstroSteps(suggestions))
    \o When(has(frameworks, "Nuxt"), NuxtSteps(suggestions))
    \o When(has(frameworks, "NestJS"), NestJsSteps(suggestions))
    \o When(has(frameworks, "Express") \/ has(frameworks, "Fastify"), ServerSteps(suggestions))
    \o LastSteps(suggestions)


(***************************************************************************)
(* The inputs buildWalkthroughSteps is checked on: the frameworks that     *)
(* detectFrameworks finds for the dependencies deps, and ranked            *)
(* suggestions of at most MaxSuggested files.                              *)
(***************************************************************************)
MaxSuggested == 2

Labels ==
    {"README.md", "package.json", "src/App.tsx", "src/main.tsx", "src/app.ts",
     "pages/api/users.ts", "app/page.tsx", "nuxt.config.ts"}
Suggested(labels) ==
    [k \in 1..Len(labels) |->
        [label |-> labels[k], reason |-> "Ranked file", uri |-> WorkspaceRoot \o "/" \o labels[k]]]
SampleDeps ==
    {{}, {"react"}, {"react", "vite"}, {"next", "react"}, {"nuxt", "astro"}, {"express", "vue"}}
SampleLabels ==
    {<<>>, <<"README.md", "src/App.tsx", "src/main.tsx">>,
     <<"pages/api/users.ts", "app/page.tsx", "nuxt.config.ts", "src/app.ts">>}
Walk(deps, labels) ==
    [fn |-> "buildWalkthroughSteps", deps |-> deps, suggestions |-> Suggested(labels),
     frameworks |-> detectFrameworks(Manifest("parsed", deps, {}), ConfigSearch({}, {})).frameworks]

WalkthroughInput(w) ==
    \/ \E deps \in SmallDepSets, labels \in SampleLabels : w = Walk(deps, labels)
    \/ \E deps \in SampleDeps : \E n \in 0..MaxSuggested : \E labels \in [1..n -> Labels] :
          IsInjective(labels) /\ w = Walk(deps, labels)

InitWalkthrough ==
    /\ SessionIdle
    /\ WalkthroughInput(call)
    /\ ret = NotRun

CallBuildWalkthroughSteps ==
    /\ call.fn = "buildWalkthroughSteps"
    /\ ret = NotRun
    /\ ret' = Returned(buildWalkthroughSteps(call.suggestions, call.frameworks))
    /\ UNCHANGED <<call, sessionVars>>

SpecWalkthrough == InitWalkthrough /\ [][CallBuildWalkthroughSteps]_vars

WalkthroughDone == call.fn = "buildWalkthroughSteps" /\ ret.done

Titles(steps) == {steps[i].title : i \in 1..Len(steps)}
Positions(titles) == {i \in 1..Len(ret.value) : ret.value[i].title \in titles}

\* the titles of the steps a framework contributes; the Vite entry step is
\* counted with React, with which alone it appears
FrameworkTitles(name) ==
    CASE name = "Next.js" -> Titles(NextJsSteps(<<>>))
      [] name = "React" -> Titles(<<ViteEntryStep(<<>>), RootComponentStep(<<>>)>>)
      [] name = "Vue" -> Titles(VueSteps(<<>>))
      [] name = "Angular" -> Titles(AngularSteps(<<>>))
      [] name = "Svelte" -> Titles(SvelteSteps(<<>>))
      [] name = "Nuxt" -> Titles(NuxtSteps(<<>>))
      [] name = "Astro" -> Titles(AstroSteps(<<>>))
      [] name = "NestJS" -> Titles(NestJsSteps(<<>>))
      [] name \in {"Express", "Fastify"} -> Titles(ServerSteps(<<>>))
      [] OTHER -> {}

\* C14: for every two detected frameworks, the steps of the one earlier in
\* the detector's name list precede the steps of the later one.
WalkthroughInDetectorOrder ==
    WalkthroughDone =>
        \A a, b \in 1..Len(DepRules) :
            /\ a < b
            /\ has(call.frameworks, DepRules[a].name)
            /\ has(call.frameworks, DepRules[b].name)
            /\ FrameworkTitles(DepRules[a].name) \cap FrameworkTitles(DepRules[b].name) = {}
            => \A i \in Positions(FrameworkTitles(DepRules[a].name)),
                  j \in Positions(FrameworkTitles(DepRules[b].name)) : i < j


\* the steps resolved by suffix, with their suffixes
SuffixSteps ==
    {[title |-> "Read the README", suffixes |-> <<"readme.md">>],
     [title |-> "Check package or build config",
      suffixes |-> <<"package.json", "pyproject.toml", "pom.xml", "build.gradle">>],
     [title |-> "Review Next.js routing",
      suffixes |-> <<"app/layout.tsx", "app/page.tsx", "pages/_app.tsx", "pages/index.tsx">>],
     [title |-> "Check Vite entry",
      suffixes |-> <<"src/main.tsx", "src/main.jsx", "src/main.ts", "src/main.js">>],
     [title |-> "Locate the root component",
      suffixes |-> <<"src/App.tsx", "src/App.jsx", "src/App.ts", "src/App.js">>],
     [title |-> "Check Vue entry", suffixes |-> <<"src/main.ts", "src/main.js">>],
     [title |-> "Review root component", suffixes |-> <<"src/App.vue">>],
     [title |-> "Check Nuxt config",
      suffixes |-> <<"nuxt.config.ts", "nuxt.config.js", "nuxt.config.mjs">>],
     [title |-> "Check Angular module", suffixes |-> <<"src/app/app.module.ts">>],
     [title |-> "Check routing module", suffixes |-> <<"src/app/app-routing.module.ts">>],
     [title |-> "Check Svelte config", suffixes |-> <<"svelte.config.js", "svelte.config.ts">>],
     [title |-> "Check Astro config",
      suffixes |-> <<"astro.config.mjs", "astro.config.ts", "astro.config.js">>],
     [title |-> "Check Nuxt app entry", suffixes |-> <<"app.vue", "pages/index.vue">>],
     [title |-> "Check NestJS entry", suffixes |-> <<"src/main.ts">>],
     [title |-> "Inspect the root module", suffixes |-> <<"src/app.module.ts">>],
     [title |-> "Trace routes or pages",
      suffixes |-> <<"src/routes/index.ts", "src/routes/index.js", "src/pages/index.tsx",
                     "src/pages/index.jsx">>],
     [title |-> "Find server setup",
      suffixes |-> <<"src/app.ts", "src/server.ts", "server.js", "app.js">>],
     [title |-> "Find the app entry point",
      suffixes |-> <<"src/index.ts", "src/index.js", "src/main.ts", "src/main.js", "src/app.ts",
                     "src/app.js", "src/server.ts", "src/server.js">>]}

\* the suggestions whose label ends, compared case-insensitively, with one
\* of the suffixes
SuffixMatches(suffixes) ==
    {k \in 1..Len(call.suggestions) :
        \E i \in 1..Len(suffixes) :
           EndsWith(ToLowerCase(call.suggestions[k].label), ToLowerCase(suffixes[i]))}

\* C15: a step resolved by suffix has for target the first suggestion whose
\* label ends, compared case-insensitively, with one of its suffixes, and
\* has no target only when no suggestion matches.
SuffixIgnoresCase ==
    WalkthroughDone =>
        \A i \in 1..Len(ret.value) : \A step \in SuffixSteps :
            ret.value[i].title = step.title =>
                ret.value[i].target =
                    IF SuffixMatches(step.suffixes) = {} THEN UndefinedUri
                    ELSE call.suggestions[CHOOSE k \in SuffixMatches(step.suffixes) :
                            \A j \in SuffixMatches(step.suffixes) : k <= j].uri

\* the Vite pair, the plain React step, or no React step at all
HasVitePair ==
    \E i \in 1..(Len(ret.value) - 1) :
        /\ ret.value[i].title = "Check Vite entry"
        /\ ret.value[i + 1].title = "Locate the root component"
RootComponentCount == Cardinality(Positions({"Locate the root component"}))
ViteEntryCount == Cardinality(Positions({"Check Vite entry"}))

\* C16: the walkthrough has the Vite pair exactly when React and Vite are
\* both detected, the single plain React step exactly when React is
\* detected without Vite, and neither without React; dependencies next and
\* react give the frameworks Next.js and React and a walkthrough with the
\* Next.js routing and API-route steps and no Vite entry step.
ReactStepsByVite ==
    WalkthroughDone =>
        /\ IF has(call.frameworks, "React") /\ has(call.frameworks, "Vite")
           THEN HasVitePair /\ RootComponentCount = 1 /\ ViteEntryCount = 1
           ELSE IF has(call.frameworks, "React")
           THEN RootComponentCount = 1 /\ ViteEntryCount = 0
           ELSE RootComponentCount = 0 /\ ViteEntryCount = 0
        /\ call.deps = {"next", "react"} =>
              /\ Range(call.frameworks) = {"Next.js", "React"}
              /\ Positions({"Review Next.js routing"}) # {}
              /\ Positions({"Check API routes"}) # {}
              /\ ViteEntryCount = 0

\* C16's case: the walkthrough of a workspace that depends on react and vite.
ReactWithViteWitness ==
    /\ WalkthroughDone
    /\ call.deps = {"react", "vite"}
    /\ HasVitePair
    /\ Len(call.suggestions) > 0


\* the candidate order of the resolver's contract
CandidateOrder ==
    <<"", ".ts", ".tsx", ".js", ".jsx", "/index.ts", "/index.tsx", "/index.js", "/index.jsx">>

\* the first candidate, in that order, that exists for import k of the
\* current file; NoPath for a bare specifier or when none exists
FirstCandidate(k) ==
    LET specifier == call.doc.imports[k]
        found == {e \in 1..Len(CandidateOrder) :
                     JoinPath(Dirname(call.currentUri), specifier \o CandidateOrder[e])
                        \in call.exists}
    IN  IF ~StartsWith(specifier, ".") \/ found = {} THEN NoPath
        ELSE JoinPath(Dirname(call.currentUri),
                      specifier \o CandidateOrder[CHOOSE e \in found : \A f \in found : e <= f])

\* the imports that contribute an entry: resolved, not the current file,
\* and not resolved to the file of an earlier import
Contributing ==
    {k \in 1..Len(call.doc.imports) :
        /\ FirstCandidate(k) \notin {NoPath, call.currentUri}
        /\ \A j \in 1..(k - 1) : FirstCandidate(j) # FirstCandidate(k)}

ImportEntries ==
    {i \in 1..Len(ret.value) :
        ret.value[i].reason \in {ImportReason(TRUE), ImportReason(FALSE)}}

\* C17: the entries of tier 1 are, in import order, the first existing
\* candidate of each relative specifier, one per specifier at most; a
\* specifier none of whose candidates exists contributes nothing and the
\* specifiers after it are still resolved.
FirstExistingCandidateOnly ==
    ResolverDone /\ call.doc.readable =>
        /\ ImportEntries = 1..Cardinality(Contributing)
        /\ \A k \in Contributing :
              ret.value[Cardinality({j \in Contributing : j <= k})].fsPath = FirstCandidate(k)

\* C17's case: ./utils resolves to utils.ts although utils.js exists too,
\* after a specifier that resolves to nothing.
FirstCandidateWitness ==
    /\ ResolverDone
    /\ call.doc.readable
    /\ call.doc.imports = <<"./api", "./utils">>
    /\ call.exists = {MainFile, "/ws/src/utils.ts", "/ws/src/utils.js"}
    /\ Len(ret.value) = 1
    /\ ret.value[1].fsPath = "/ws/src/utils.ts"


StepReasonPrefix == "Next walkthrough step: "
StepEntries == {i \in 1..Len(ret.value) : StartsWith(ret.value[i].reason, StepReasonPrefix)}

\* what tier 1 has collected: the current file and the imported files
CollectedByImports == {call.currentUri} \cup {ret.value[i].fsPath : i \in ImportEntries}

\* the steps the current file is the target of, and the steps after the
\* first of them whose target is set and not collected by tier 1
CurrentSteps == {i \in 1..Len(call.steps) : call.steps[i].target = call.currentUri}
LaterSteps ==
    {i \in 1..Len(call.steps) :
        /\ \E c \in CurrentSteps : (\A d \in CurrentSteps : c <= d) /\ c < i
        /\ call.steps[i].target # UndefinedUri
        /\ call.steps[i].target \notin CollectedByImports}

\* C18: tier 2 appends at most one entry; it is the target of the earliest
\* step after the current file's step whose target is set and not yet
\* collected, and there is none when the current file is no step's target
\* or no such later step exists.
WalkthroughContinuationOnce ==
    ResolverDone =>
        /\ Cardinality(StepEntries) <= 1
        /\ (StepEntries = {}) = (LaterSteps = {})
        /\ \A i \in StepEntries :
              /\ i = Cardinality(ImportEntries) + 1
              /\ \E k \in LaterSteps :
                    /\ \A j \in LaterSteps : k <= j
                    /\ ret.value[i].fsPath = call.steps[k].target
                    /\ ret.value[i].reason = StepReasonPrefix \o call.steps[k].title

\* C18's case: the step right after the current file's step has no target
\* and the one after it is appended.
ContinuationWitness ==
    /\ ResolverDone
    /\ Len(call.steps) = 3
    /\ call.steps[1].target = call.currentUri
    /\ call.steps[2].target = UndefinedUri
    /\ StepEntries = {1}
    /\ ret.value[1].fsPath = call.steps[3].target


\* the entries of the result that come from the ranked suggestions
FallbackEntries == (1..Len(ret.value)) \ (ImportEntries \cup StepEntries)
CollectedBySteps == {ret.value[i].fsPath : i \in StepEntries}
RankOf(path) == {k \in 1..Len(call.suggestions) : call.suggestions[k].uri = path}

\* C19: every entry of tier 3 is a ranked suggestion, not learned and not
\* collected by tiers 1 and 2, the entries of tier 3 follow the ranked
\* order, and a learned file in the result is an entry of tier 1 or 2.
FallbackSkipsLearned ==
    ResolverDone =>
        /\ \A i \in FallbackEntries :
              /\ i > Cardinality(ImportEntries) + Cardinality(StepEntries)
              /\ ret.value[i].fsPath \notin call.learned
              /\ ret.value[i].fsPath \notin CollectedByImports \cup CollectedBySteps
              /\ \E k \in RankOf(ret.value[i].fsPath) :
                    /\ ret.value[i].label = call.suggestions[k].label
                    /\ ret.value[i].reason = call.suggestions[k].reason
        /\ \A i, j \in FallbackEntries :
              i < j => \E k \in RankOf(ret.value[i].fsPath), l \in RankOf(ret.value[j].fsPath) : k < l
        /\ \A i \in 1..Len(ret.value) :
              ret.value[i].fsPath \in call.learned => i \in ImportEntries \cup StepEntries

\* C19's case: a learned file is ranked first and imported by the current
\* file; it is in the result as an import, and tier 3 adds the file ranked
\* after it.
FallbackWitness ==
    /\ ResolverDone
    /\ Len(call.suggestions) = 2
    /\ call.suggestions[1].uri \in call.learned \ {call.currentUri}
    /\ \E i \in ImportEntries : ret.value[i].fsPath = call.suggestions[1].uri
    /\ \E i \in FallbackEntries : ret.value[i].fsPath = call.suggestions[2].uri


\* C20: in every reachable state a stored answer is the one computed from
\* the document of the current learned file and its summary; in particular
\* each evidence line is a line of the current learned file.
AnswerFromCurrentFile ==
    nextResponse # Undefined /\ currentLearnedUri # UndefinedUri =>
        /\ nextResponse =
              buildNextResponse(nextResponse.question, TextDocument(currentLearnedUri),
                                currentSummary)
        /\ \A k \in 1..Len(nextResponse.evidence) :
              LET e == nextResponse.evidence[k]
                  lines == TextDocument(currentLearnedUri).lines
              IN  e.line <= Len(lines) /\ e.text = Trim(lines[e.line])


\* C21: in every reachable state the current learned file is defined
\* exactly when the current summary is, the summary is the one of the
\* current learned file, and the current learned file is in the learned set.
ActiveContextConsistent ==
    /\ (currentLearnedUri # UndefinedUri) = (currentSummary # Undefined)
    /\ currentLearnedUri # UndefinedUri =>
          /\ currentSummary.filePath = currentLearnedUri
          /\ currentSummary = analyzeDocument(TextDocument(currentLearnedUri))
          /\ currentLearnedUri \in learnedFiles

\* C21's case: two learnFile requests for different files were in flight
\* together and both have committed; the second writer's file is current.
TwoLearnsCommittedWitness ==
    /\ currentLearnedUri = AppFile
    /\ learnedFiles = {AppFile, PageFile}
    /\ \E t, u \in tasks :
          /\ t.command = "learnFile" /\ t.pc = "update" /\ t.doc.fileName = AppFile
          /\ u.command = "learnFile" /\ u.pc = "update" /\ u.doc.fileName = PageFile


\* C22: no line number appears more than once in the evidence of an answer,
\* also when a line of a markup or stylesheet document matches both the
\* selector scan and the keyword scan.
EvidenceLinesDistinct ==
    MatcherDone =>
        \A i, j \in 1..Len(ret.value.evidence) :
            i # j => ret.value.evidence[i].line # ret.value.evidence[j].line


\* the lines on which an identifier is exported for the first time
FirstExportLines ==
    {i \in 1..Len(call.doc.lines) :
        /\ ExportMatch(call.doc.lines[i]) # ""
        /\ \A j \in 1..(i - 1) : ExportMatch(call.doc.lines[j]) # ExportMatch(call.doc.lines[i])}

\* C23: the exports of the summary are the first min(8, k) of the k distinct
\* exported identifiers of the document, in order of first appearance,
\* however many export lines repeat an earlier identifier.
ExportsFirstDistinct ==
    AnalyzerDone =>
        /\ Len(ret.value.exports) = Min(MaxExports, Cardinality(FirstExportLines))
        /\ \A i \in FirstExportLines :
              LET rank == Cardinality({j \in FirstExportLines : j <= i})
              IN  rank <= MaxExports => ret.value.exports[rank] = ExportMatch(call.doc.lines[i])

=============================================================================
